---- MODULE Spec2Model ----
(***************************************************************************)
(* Kruskal clustering (src/kruskal.py): minimum_spanning_tree and          *)
(* clustering over a union-find structure kept in three dictionaries,      *)
(* parent, rank and cc.                                                    *)
(*                                                                         *)
(* A behaviour is a call of one of the two public functions on a graph,    *)
(* from its entry to its return or to its exception (Spec).  Two further   *)
(* specifications let a second call follow on the same graph, the outcome  *)
(* of the first kept in `prev`: the same call again (SpecRepeat), and      *)
(* minimum_spanning_tree after clustering, as src/main.py does (SpecMain). *)
(*                                                                         *)
(* Vertices are integers (the letters of src/main.py in alphabetical       *)
(* order); an edge is the tuple <<weight, source, target>>.  The graph is  *)
(* a set of tuples, as in src/main.py; the order in which Python iterates  *)
(* over a set is not fixed, and is chosen anew wherever the code iterates. *)
(***************************************************************************)
EXTENDS Integers, Sequences, FiniteSets

\* ------------------------------------------------------------------ bounds
NumVertices == 3
MaxEdges == 2

Vertices == 1..NumVertices
\* weights matter by their order alone: as many values as edges give every
\* pattern of ties and strict orders
Weights == 1..MaxEdges
\* cluster counts: negative, zero, 1..n and beyond the number of vertices
ClusterCounts == (0 - 1)..(NumVertices + 1)

EdgeTuples == {<<w, a, b>> : w \in Weights, a \in Vertices, b \in Vertices}
\* elements that are not 3-tuples: too short and too long
Malformed == {<<1, a>> : a \in Vertices} \cup {<<1, a, a, a>> : a \in Vertices}
Elements == EdgeTuples \cup Malformed

\* the graph of src/main.py, A=1 B=2 C=3 D=4 E=5 S=6
MainGraph ==
    { <<1, 1, 6>>, <<5, 1, 2>>, <<6, 1, 3>>, <<3, 6, 3>>,
      <<2, 3, 4>>, <<3, 2, 4>>, <<2, 5, 2>>, <<4, 5, 4>> }
MainClusters == 3

None == <<"None">>

VARIABLES
    op,              \* the public function called
    edges,           \* its argument: the graph
    nb_clusters,     \* its argument (clustering only)
    pc,              \* where the call is
    parent, rank, cc,
    nb_unions,
    todo,            \* what is left of sorted(edges)
    minspantree,
    union_performed,
    merges,          \* history: unions that merged two components
    result,          \* the value returned
    error,           \* the exception raised
    prev             \* the call before this one: what it was and how it ended

vars == <<op, edges, nb_clusters, pc, parent, rank, cc, nb_unions, todo,
          minspantree, union_performed, merges, result, error, prev>>

\* ------------------------------------------------------- pure helpers
Empty == [v \in {} |-> 0]

\* F(e), with e evaluated once however often F uses its argument
Once(F(_), e) == CHOOSE r \in {F(x) : x \in {e}} : TRUE

\* the orders in which a set may be iterated
RECURSIVE Orders(_)
Orders(S) ==
    IF S = {} THEN {<<>>}
    ELSE UNION {{<<x>> \o r : r \in Orders(S \ {x})} : x \in S}

\* Python's order on tuples, for the 3-tuples that reach sorted()
TupleLess(e, f) ==
    \/ e[1] < f[1]
    \/ e[1] = f[1] /\ e[2] < f[2]
    \/ e[1] = f[1] /\ e[2] = f[2] /\ e[3] < f[3]

\* a comparison that looks at the weight alone
WeightLess(e, f) == e[1] < f[1]

\* a comparison the wrong way round
TupleGreater(e, f) == TupleLess(f, e)

EdgeLess(e, f) == TupleLess(e, f)

\* sorted(edges), for every order in which the set may be iterated.  The sort
\* is stable: the result starts with an element that none is less than (the
\* first such in the iteration, so any of them), then the sorted rest.
RECURSIVE sorted(_)
sorted(S) ==
    IF S = {} THEN {<<>>}
    ELSE UNION {{<<x>> \o r : r \in sorted(S \ {x})} :
                    x \in {y \in S : \A z \in S : ~EdgeLess(z, y)}}

WellFormed(S) == \A e \in S : Len(e) = 3

_vertices(S) == UNION {{e[2], e[3]} : e \in S}

\* ------------------------------------------------------- union-find
\* a find that reads the parents and writes none
RECURSIVE FindWithoutCompression(_, _)
FindWithoutCompression(vertice, par) ==
    IF par[vertice] # vertice
    THEN [root |-> FindWithoutCompression(par[vertice], par).root,
          parent |-> par]
    ELSE [root |-> vertice, parent |-> par]

RECURSIVE _find(_, _)
_find(vertice, par) ==
    Once(LAMBDA p :
             IF p[vertice] # vertice
             THEN Once(LAMBDA r : [root |-> r.root,
                                   parent |-> [r.parent EXCEPT ![vertice] = r.root]],
                       _find(p[vertice], p))
             ELSE [root |-> vertice, parent |-> p],
         par)

_make_set(vertice, st) ==
    [parent |-> [v \in DOMAIN st.parent \cup {vertice} |->
                    IF v = vertice THEN vertice ELSE st.parent[v]],
     rank   |-> [v \in DOMAIN st.rank \cup {vertice} |->
                    IF v = vertice THEN 0 ELSE st.rank[v]],
     cc     |-> [v \in DOMAIN st.cc \cup {vertice} |->
                    IF v = vertice THEN {vertice} ELSE st.cc[v]]]

RECURSIVE MakeSets(_, _)
MakeSets(vs, st) ==
    IF vs = <<>> THEN st
    ELSE Once(LAMBDA next : MakeSets(Tail(vs), next), _make_set(Head(vs), st))

\* a union whose test of the ranks is >= : on equal ranks the second root goes
\* under the first, and no rank grows
UnionGreaterEqual(vertice1, vertice2, par, rk) ==
    LET f1 == _find(vertice1, par)
        f2 == _find(vertice2, f1.parent)
        root1 == f1.root
        root2 == f2.root
        p == f2.parent
    IN IF root1 # root2
       THEN IF rk[root1] >= rk[root2]
            THEN [parent |-> [p EXCEPT ![root2] = root1], rank |-> rk]
            ELSE [parent |-> [p EXCEPT ![root1] = root2], rank |-> rk]
       ELSE [parent |-> p, rank |-> rk]

\* a union that forgets the rank of the surviving root
UnionKeepingRank(vertice1, vertice2, par, rk) ==
    LET f1 == _find(vertice1, par)
        f2 == _find(vertice2, f1.parent)
        root1 == f1.root
        root2 == f2.root
        p == f2.parent
    IN IF root1 # root2
       THEN IF rk[root1] > rk[root2]
            THEN [parent |-> [p EXCEPT ![root2] = root1], rank |-> rk]
            ELSE [parent |-> [p EXCEPT ![root1] = root2], rank |-> rk]
       ELSE [parent |-> p, rank |-> rk]

_union(vertice1, vertice2, par, rk) ==
    LET f1 == _find(vertice1, par)
        f2 == _find(vertice2, f1.parent)
        root1 == f1.root
        root2 == f2.root
        p == f2.parent
    IN IF root1 # root2
       THEN IF rk[root1] > rk[root2]
            THEN [parent |-> [p EXCEPT ![root2] = root1], rank |-> rk]
            ELSE [parent |-> [p EXCEPT ![root1] = root2],
                  rank |-> IF rk[root1] = rk[root2]
                           THEN [rk EXCEPT ![root2] = rk[root2] + 1]
                           ELSE rk]
       ELSE [parent |-> p, rank |-> rk]

\* a union that reports the first root as the survivor, whichever survived
UnionReturningFirst(vertice1, vertice2, par, rk) ==
    LET f1 == _find(vertice1, par)
        f2 == _find(vertice2, f1.parent)
        root1 == f1.root
        root2 == f2.root
        p == f2.parent
    IN IF root1 # root2
       THEN IF rk[root1] > rk[root2]
            THEN [parent |-> [p EXCEPT ![root2] = root1], rank |-> rk,
                  ret |-> <<root1, root2>>]
            ELSE [parent |-> [p EXCEPT ![root1] = root2],
                  rank |-> IF rk[root1] = rk[root2]
                           THEN [rk EXCEPT ![root2] = rk[root2] + 1]
                           ELSE rk,
                  ret |-> <<root1, root2>>]
       ELSE [parent |-> p, rank |-> rk, ret |-> None]

_union_returning_choosen(vertice1, vertice2, par, rk) ==
    LET f1 == _find(vertice1, par)
        f2 == _find(vertice2, f1.parent)
        root1 == f1.root
        root2 == f2.root
        p == f2.parent
    IN IF root1 # root2
       THEN IF rk[root1] > rk[root2]
            THEN [parent |-> [p EXCEPT ![root2] = root1], rank |-> rk,
                  ret |-> <<root1, root2>>]
            ELSE [parent |-> [p EXCEPT ![root1] = root2],
                  rank |-> IF rk[root1] = rk[root2]
                           THEN [rk EXCEPT ![root2] = rk[root2] + 1]
                           ELSE rk,
                  ret |-> <<root2, root1>>]
       ELSE [parent |-> p, rank |-> rk, ret |-> None]

Roots(par) == {v \in DOMAIN par : par[v] = v}


\* ------------------------------------------------------- the calls
RECURSIVE GraphsUpTo(_)
GraphsUpTo(n) ==
    IF n = 0 THEN {{}}
    ELSE LET smaller == GraphsUpTo(n - 1)
         IN smaller \cup {g \cup {e} : g \in smaller, e \in Elements}

Graphs == GraphsUpTo(MaxEdges) \cup {MainGraph}

NoCall == [op |-> "none", nb_clusters |-> 0, pc |-> "none", result |-> None]

\* the state in which a call of `f` starts
Call(f, k) ==
    /\ op' = f
    /\ nb_clusters' = k
    /\ pc' = "called"
    /\ parent' = Empty
    /\ rank' = Empty
    /\ cc' = Empty
    /\ nb_unions' = 0
    /\ todo' = <<>>
    /\ minspantree' = {}
    /\ union_performed' = 0
    /\ merges' = 0
    /\ result' = None
    /\ error' = "none"

Init ==
    /\ edges \in Graphs
    /\ \/ op = "minimum_spanning_tree" /\ nb_clusters = 0
       \/ op = "clustering" /\ nb_clusters \in ClusterCounts
    /\ pc = "called"
    /\ parent = Empty
    /\ rank = Empty
    /\ cc = Empty
    /\ nb_unions = 0
    /\ todo = <<>>
    /\ minspantree = {}
    /\ union_performed = 0
    /\ merges = 0
    /\ result = None
    /\ error = "none"
    /\ prev = NoCall

\* a check of the shape that lets everything through
ValidateNothing ==
    /\ pc = "called"
    /\ op = "clustering"
    /\ pc' = "init"
    /\ UNCHANGED <<op, edges, nb_clusters, parent, rank, cc, nb_unions, todo,
                   minspantree, union_performed, merges, result, error, prev>>

\* clustering, lines 40-44: the check of the edges' shape
Validate ==
    /\ pc = "called"
    /\ op = "clustering"
    /\ IF WellFormed(edges)
       THEN pc' = "init" /\ error' = error
       ELSE pc' = "raised" /\ error' = "ValueError"
    /\ UNCHANGED <<op, edges, nb_clusters, parent, rank, cc, nb_unions, todo,
                   minspantree, union_performed, merges, result, prev>>

\* lines 23-24, lines 54-55: the three dictionaries after one _make_set per
\* vertex, for every order in which the set of vertices may be iterated
Registered(vertices) ==
    {MakeSets(order, [parent |-> Empty, rank |-> Empty, cc |-> Empty]) :
        order \in Orders(vertices)}

\* minimum_spanning_tree lines 22-28, clustering lines 46-59: the vertices, the
\* dictionaries (one _make_set per vertex, in the order the set is iterated),
\* the counters, and sorted(edges) as the loop starts.  Unpacking an element
\* that is no 3-tuple in _vertices raises ValueError.
Setup ==
    /\ \/ pc = "called" /\ op = "minimum_spanning_tree"
       \/ pc = "init" /\ op = "clustering"
    /\ IF WellFormed(edges)
       THEN /\ \E st \in Registered(_vertices(edges)) :
                 /\ parent' = st.parent
                 /\ rank' = st.rank
                 /\ cc' = st.cc
            /\ nb_unions' = IF op = "clustering"
                            THEN Cardinality(_vertices(edges)) - nb_clusters
                            ELSE 0
            /\ union_performed' = IF op = "clustering" THEN 1 ELSE 0
            /\ todo' \in sorted(edges)
            /\ pc' = "loop"
            /\ error' = error
       ELSE /\ pc' = "raised"
            /\ error' = "ValueError"
            /\ UNCHANGED <<parent, rank, cc, nb_unions, union_performed, todo>>
    /\ UNCHANGED <<op, edges, nb_clusters, minspantree, merges, result, prev>>

\* history: the number of components two of which a step merged into one
Merged(par, newpar) == Cardinality(Roots(par)) - Cardinality(Roots(newpar))

\* a test that takes every edge
DifferAlways(root1, root2) == TRUE

\* line 30, line 65: the edge joins two components
Differ(root1, root2) == root1 # root2

\* an edge put back together the wrong way round
AddEdgeSwapped(mst, edge) == mst \cup {<<edge[1], edge[3], edge[2]>>}

\* line 32, line 78: minspantree.add(edge)
AddEdge(mst, edge) == mst \cup {edge}

\* minimum_spanning_tree, lines 29-32: one iteration of the loop
MstStep(edge, par, rk, mst) ==
    LET f1 == _find(edge[2], par)
        f2 == _find(edge[3], f1.parent)
    IN IF Differ(f1.root, f2.root)
       THEN LET u == _union(edge[2], edge[3], f2.parent, rk)
            IN [parent |-> u.parent, rank |-> u.rank,
                minspantree |-> AddEdge(mst, edge)]
       ELSE [parent |-> f2.parent, rank |-> rk, minspantree |-> mst]

MstIter ==
    /\ pc = "loop"
    /\ op = "minimum_spanning_tree"
    /\ todo # <<>>
    /\ LET s == MstStep(Head(todo), parent, rank, minspantree)
       IN /\ parent' = s.parent
          /\ rank' = s.rank
          /\ minspantree' = s.minspantree
          /\ merges' = merges + Merged(parent, s.parent)
    /\ todo' = Tail(todo)
    /\ UNCHANGED <<op, edges, nb_clusters, pc, cc, nb_unions, union_performed,
                   result, error, prev>>

\* the absorbed members added, the absorbed entry left in place
MergeMembersKeeping(members, choosen_root, unchoosen_root) ==
    [members EXCEPT ![choosen_root] = members[choosen_root]
                                      \cup members[unchoosen_root]]

\* lines 72-73: cc[choosen_root] |= cc[unchoosen_root]; del cc[unchoosen_root]
MergeMembers(members, choosen_root, unchoosen_root) ==
    [r \in DOMAIN members \ {unchoosen_root} |->
        IF r = choosen_root
        THEN members[choosen_root] \cup members[unchoosen_root]
        ELSE members[r]]

\* clustering, lines 62-79: one iteration of the loop, past the test of the
\* union budget.  `failed` is an assertion (lines 69, 70, 74) that did not hold.
ClusterStep(edge, par, rk, members, mst, performed) ==
    LET f1 == _find(edge[2], par)
        f2 == _find(edge[3], f1.parent)
        same == [parent |-> f2.parent, rank |-> rk, cc |-> members,
                 minspantree |-> mst, union_performed |-> performed,
                 failed |-> FALSE]
    IN IF Differ(f1.root, f2.root)
       THEN LET u == _union_returning_choosen(edge[2], edge[3], f2.parent, rk)
                counted == [same EXCEPT !.parent = u.parent, !.rank = u.rank,
                                        !.minspantree = AddEdge(mst, edge),
                                        !.union_performed = performed + 1]
            IN IF u.ret # None
               THEN LET choosen_root == u.ret[1]
                        unchoosen_root == u.ret[2]
                    IN IF choosen_root \notin DOMAIN members
                          \/ unchoosen_root \notin DOMAIN members
                       THEN [same EXCEPT !.parent = u.parent, !.rank = u.rank,
                                         !.failed = TRUE]
                       ELSE LET merged == MergeMembers(members, choosen_root,
                                                       unchoosen_root)
                                g1 == _find(edge[2], u.parent)
                                g2 == _find(edge[3], g1.parent)
                            IN IF g1.root # g2.root
                               THEN [same EXCEPT !.parent = g2.parent,
                                                 !.rank = u.rank,
                                                 !.cc = merged,
                                                 !.failed = TRUE]
                               ELSE [counted EXCEPT !.parent = g2.parent,
                                                    !.cc = merged]
               ELSE counted
       ELSE same

\* a budget that is spent one union early
BudgetReached(performed, budget) == performed >= budget

\* a budget that is spent one union late
BudgetOverrun(performed, budget) == performed > budget + 1

\* line 60: if union_performed > nb_unions: break
BudgetExceeded(performed, budget) == performed > budget

\* a loop that does not move past an edge it adds nothing for
ClusterIterStuck ==
    /\ pc = "loop"
    /\ op = "clustering"
    /\ todo # <<>>
    /\ ~BudgetExceeded(union_performed, nb_unions)
    /\ LET s == ClusterStep(Head(todo), parent, rank, cc, minspantree,
                            union_performed)
       IN /\ parent' = s.parent
          /\ rank' = s.rank
          /\ cc' = s.cc
          /\ minspantree' = s.minspantree
          /\ union_performed' = s.union_performed
          /\ merges' = merges + Merged(parent, s.parent)
          /\ IF s.failed
             THEN pc' = "raised" /\ error' = "AssertionError"
             ELSE pc' = pc /\ error' = error
          /\ todo' = IF s.union_performed = union_performed
                     THEN todo ELSE Tail(todo)
    /\ UNCHANGED <<op, edges, nb_clusters, nb_unions, result, prev>>

ClusterIter ==
    /\ pc = "loop"
    /\ op = "clustering"
    /\ todo # <<>>
    /\ ~BudgetExceeded(union_performed, nb_unions)
    /\ LET s == ClusterStep(Head(todo), parent, rank, cc, minspantree,
                            union_performed)
       IN /\ parent' = s.parent
          /\ rank' = s.rank
          /\ cc' = s.cc
          /\ minspantree' = s.minspantree
          /\ union_performed' = s.union_performed
          /\ merges' = merges + Merged(parent, s.parent)
          /\ IF s.failed
             THEN pc' = "raised" /\ error' = "AssertionError"
             ELSE pc' = pc /\ error' = error
    /\ todo' = Tail(todo)
    /\ UNCHANGED <<op, edges, nb_clusters, nb_unions, result, prev>>

\* the loop is over (the edges are exhausted, or clustering's break, lines 60-61)
\* and the function returns: line 33, line 81
Return ==
    /\ pc = "loop"
    /\ \/ todo = <<>>
       \/ op = "clustering" /\ BudgetExceeded(union_performed, nb_unions)
    /\ pc' = "done"
    /\ result' = IF op = "clustering" THEN <<minspantree, cc>> ELSE minspantree
    /\ UNCHANGED <<op, edges, nb_clusters, parent, rank, cc, nb_unions, todo,
                   minspantree, union_performed, merges, error, prev>>

Next == Validate \/ Setup \/ MstIter \/ ClusterIter \/ Return

Spec == Init /\ [][Next]_vars

\* ------------------------------------------------------- a second call
\* the call is over; what it was and how it ended is kept, and `f` is called
\* on the same graph
NextCall(f, k) ==
    /\ pc \in {"done", "raised"}
    /\ prev' = [op |-> op, nb_clusters |-> nb_clusters, pc |-> pc,
                result |-> result]
    /\ Call(f, k)
    /\ UNCHANGED edges

\* the same function is called again with the same arguments
Repeat == NextCall(op, nb_clusters)

NextRepeat == Next \/ Repeat

SpecRepeat == Init /\ [][NextRepeat]_vars

\* src/main.py, lines 22 and 25: clustering, then minimum_spanning_tree
ThenMst == op = "clustering" /\ NextCall("minimum_spanning_tree", 0)

NextMain == Next \/ ThenMst

SpecMain == Init /\ [][NextMain]_vars

\* ------------------------------------------------------- graphs
\* what the claims say of a graph, stated without the union-find structure
Endpoints(S) == {e[2] : e \in S} \cup {e[3] : e \in S}

RECURSIVE Grow(_, _)
Grow(S, R) ==
    LET more == R \cup {e[3] : e \in {d \in S : d[2] \in R}}
                  \cup {e[2] : e \in {d \in S : d[3] \in R}}
    IN IF more = R THEN R ELSE Grow(S, more)

\* the vertices joined to a by edges of S, a itself among them
Reach(S, a) == Grow(S, {a})

Components(S) == {Reach(S, v) : v \in Endpoints(S)}

IsConnected(S) == Cardinality(Components(S)) = 1

\* no edge closes a cycle: none joins two vertices the other edges join
Acyclic(S) == \A e \in S : e[3] \notin Reach(S \ {e}, e[2])

SameConnectivity(T, S) == \A v \in Endpoints(S) : Reach(T, v) = Reach(S, v)

SpanningForests(S) ==
    {T \in SUBSET S : Acyclic(T) /\ SameConnectivity(T, S)}

RECURSIVE Weight(_)
Weight(S) ==
    IF S = {} THEN 0
    ELSE LET e == CHOOSE d \in S : TRUE IN e[1] + Weight(S \ {e})

Min(a, b) == IF a < b THEN a ELSE b

MstDone == pc = "done" /\ op = "minimum_spanning_tree"

ClusteringDone == pc = "done" /\ op = "clustering"

\* ------------------------------------------------------- claims
\* C1: the set minimum_spanning_tree returns weighs no more than any spanning
\* forest of the input graph.
C1_MinimalWeight ==
    MstDone => \A T \in SpanningForests(edges) : Weight(result) <= Weight(T)

\* the graph of src/main.py: the five edges of weight 11 are returned, and the
\* graph has heavier spanning trees
C1_Witness ==
    /\ MstDone
    /\ edges = MainGraph
    /\ result = {<<1, 1, 6>>, <<2, 3, 4>>, <<3, 6, 3>>, <<3, 2, 4>>, <<2, 5, 2>>}
    /\ Weight(result) = 11
    /\ \E T \in SpanningForests(edges) : Weight(T) > 11

\* C2: the set minimum_spanning_tree returns is a spanning forest of the input
\* graph: acyclic, with as many edges as vertices touched less connected
\* components, and joining two vertices exactly when the input joins them.
C2_SpanningForest ==
    MstDone =>
        /\ Acyclic(result)
        /\ Cardinality(result)
             = Cardinality(Endpoints(edges)) - Cardinality(Components(edges))
        /\ \A a, b \in Endpoints(edges) :
              b \in Reach(result, a) <=> b \in Reach(edges, a)

\* a graph with a cycle and with several components
C2_Witness ==
    /\ MstDone
    /\ ~Acyclic(edges)
    /\ Cardinality(Components(edges)) >= 2
    /\ result # {}

\* C3: the mapping clustering returns partitions the vertices the edges
\* touch: each is in exactly one value-set, and no value-set holds anything
\* else.
C3_Partition ==
    ClusteringDone =>
        LET members == result[2]
        IN /\ \A v \in Endpoints(edges) :
                 Cardinality({r \in DOMAIN members : v \in members[r]}) = 1
           /\ \A r \in DOMAIN members : members[r] \subseteq Endpoints(edges)

\* several clusters, one of them of several vertices
C3_Witness ==
    /\ ClusteringDone
    /\ Cardinality(DOMAIN result[2]) >= 2
    /\ \E r \in DOMAIN result[2] : Cardinality(result[2][r]) >= 2

\* C4: for k >= 1 the mapping has min(k, vertices) entries when the graph has
\* no more connected components than that, and as many entries as the graph
\* has components otherwise; with enough edges exactly vertices - k merges
\* were made, not one fewer and not one more.
C4_ClusterCount ==
    ClusteringDone /\ nb_clusters >= 1 =>
        LET n == Cardinality(Endpoints(edges))
            c == Cardinality(Components(edges))
            m == Min(nb_clusters, n)
        IN IF c <= m
           THEN /\ Cardinality(DOMAIN result[2]) = m
                /\ merges = n - m
           ELSE Cardinality(DOMAIN result[2]) = c

\* src/main.py: three clusters of the six vertices, three edges, and the loop
\* left with edges still to come
C4_Witness ==
    /\ ClusteringDone
    /\ edges = MainGraph
    /\ nb_clusters = MainClusters
    /\ Cardinality(DOMAIN result[2]) = 3
    /\ Cardinality(result[1]) = 3
    /\ DOMAIN result[2] = {2, 4, 6}
    /\ result[2][2] = {2, 5} /\ result[2][4] = {3, 4} /\ result[2][6] = {1, 6}
    /\ todo # <<>>

\* C5: on a connected graph clustering(edges, 1) accepts edges of the same
\* total weight as minimum_spanning_tree(edges) returns, and its mapping has
\* one entry, holding every vertex.
C5_OneCluster ==
    /\ MstDone
    /\ prev.op = "clustering"
    /\ prev.pc = "done"
    /\ prev.nb_clusters = 1
    /\ IsConnected(edges)
    => /\ Weight(prev.result[1]) = Weight(result)
       /\ Cardinality(DOMAIN prev.result[2]) = 1
       /\ \A r \in DOMAIN prev.result[2] :
             prev.result[2][r] = Endpoints(edges)

C5_Witness ==
    /\ MstDone
    /\ prev.op = "clustering"
    /\ prev.pc = "done"
    /\ prev.nb_clusters = 1
    /\ IsConnected(edges)
    /\ Cardinality(Endpoints(edges)) >= 3
    /\ Cardinality(prev.result[1]) >= 2

\* C6: with as many clusters asked as the edges touch vertices, clustering
\* accepts no edge and every vertex is the key of its own singleton.
C6_AllSingletons ==
    ClusteringDone /\ nb_clusters = Cardinality(Endpoints(edges)) =>
        /\ result[1] = {}
        /\ DOMAIN result[2] = Endpoints(edges)
        /\ \A v \in DOMAIN result[2] : result[2][v] = {v}

\* an edge between two vertices was there to be taken
C6_Witness ==
    /\ ClusteringDone
    /\ nb_clusters = Cardinality(Endpoints(edges))
    /\ \E e \in edges : e[2] # e[3]
    /\ result[1] = {}

\* C7: when an element of the edges is no 3-tuple, clustering raises
\* ValueError before anything else: no vertex registered, no edge sorted,
\* examined or accepted, nothing returned.
C7_InvalidEdgeFormat ==
    op = "clustering" /\ ~WellFormed(edges) /\ pc # "called" =>
        /\ pc = "raised"
        /\ error = "ValueError"
        /\ parent = Empty /\ rank = Empty /\ cc = Empty
        /\ todo = <<>>
        /\ minspantree = {}
        /\ merges = 0
        /\ result = None

\* well-formed edges beside the malformed one
C7_Witness ==
    /\ op = "clustering"
    /\ pc = "raised"
    /\ error = "ValueError"
    /\ \E e \in edges : Len(e) = 3 /\ e[2] # e[3]
    /\ \E e \in edges : Len(e) # 3

\* C8: the same call again on the same edges, iterated in whatever order,
\* ends the same way: the same accepted edges and, for clustering, the same
\* mapping (keys and member sets).
C8_Deterministic ==
    pc \in {"done", "raised"} /\ prev.pc # "none" =>
        /\ prev.op = op /\ prev.nb_clusters = nb_clusters
        /\ prev.pc = pc
        /\ prev.result = result

\* two edges of the same weight, one of them accepted and the other not
C8_Witness ==
    /\ pc = "done"
    /\ prev.pc = "done"
    /\ \E e, f \in edges :
          /\ e[1] = f[1]
          /\ e \in minspantree
          /\ f \notin minspantree
          /\ Endpoints({e}) = Endpoints({f})

\* C9: every edge minimum_spanning_tree returns is an edge of the input, as
\* it was given.
C9_Subset == MstDone => result \subseteq edges

\* some edges returned, some not, one returned with its greater endpoint first
C9_Witness ==
    /\ MstDone
    /\ result # {}
    /\ result # edges
    /\ \E e \in result : e[2] > e[3]

\* C10, as stated: the forest has one edge fewer than unions were performed.
C10_OneFewer == MstDone => Cardinality(result) = merges - 1

\* C10, amended: the forest has exactly as many edges as unions were
\* performed (merges of two distinct components).
C10_AsManyAsMerges == MstDone => Cardinality(result) = merges

C10_Witness ==
    /\ MstDone
    /\ merges >= 2
    /\ Cardinality(result) = merges
    /\ result # edges

\* C11, as stated: for k >= 1 the mapping has exactly k entries when k
\* components can be had (the graph touches at least k vertices and has no
\* more than k components), and fewer than k entries otherwise; never more.
C11_NeverMore ==
    ClusteringDone /\ nb_clusters >= 1 =>
        LET n == Cardinality(Endpoints(edges))
            c == Cardinality(Components(edges))
        IN /\ IF c <= nb_clusters /\ nb_clusters <= n
              THEN Cardinality(DOMAIN result[2]) = nb_clusters
              ELSE Cardinality(DOMAIN result[2]) < nb_clusters
           /\ Cardinality(DOMAIN result[2]) <= nb_clusters

\* C11, amended: exactly k entries when the graph touches at least k vertices
\* and has no more than k components; fewer than k, one per vertex, when it
\* touches fewer than k vertices; more than k, one per component, when it has
\* more than k components.
C11_ExactFewerOrMore ==
    ClusteringDone /\ nb_clusters >= 1 =>
        LET n == Cardinality(Endpoints(edges))
            c == Cardinality(Components(edges))
            entries == Cardinality(DOMAIN result[2])
        IN /\ c <= nb_clusters /\ nb_clusters <= n => entries = nb_clusters
           /\ nb_clusters > n => entries = n /\ entries < nb_clusters
           /\ c > nb_clusters => entries = c /\ entries > nb_clusters

\* a graph of more components than clusters asked, every edge consumed
C11_Witness ==
    /\ ClusteringDone
    /\ nb_clusters >= 1
    /\ Cardinality(Components(edges)) > nb_clusters
    /\ Cardinality(DOMAIN result[2]) > nb_clusters
    /\ result[1] # {}

\* ------------------------------------------------------- the disjoint set alone
\* Any sequence of the four disjoint-set functions on the dictionaries, each
\* vertex registered once (lines 23-24, 54-55).  `prev` keeps the call just
\* made: the function, its arguments, what it returned, and the dictionaries
\* as they were before it.  cc is written by _make_set alone: merging the
\* member sets is clustering's work, not the union's.
NumElements == 4

Keys == 1..NumElements

NoOperation == [op |-> "none", args |-> <<>>, ret |-> None,
                parent |-> Empty, rank |-> Empty, cc |-> Empty]

InitDS ==
    /\ op = "none"
    /\ edges = {}
    /\ nb_clusters = 0
    /\ pc = "disjoint set"
    /\ parent = Empty
    /\ rank = Empty
    /\ cc = Empty
    /\ nb_unions = 0
    /\ todo = <<>>
    /\ minspantree = {}
    /\ union_performed = 0
    /\ merges = 0
    /\ result = None
    /\ error = "none"
    /\ prev = NoOperation

Operation(name, args, ret) ==
    /\ prev' = [op |-> name, args |-> args, ret |-> ret,
                parent |-> parent, rank |-> rank, cc |-> cc]
    /\ UNCHANGED <<op, edges, nb_clusters, pc, nb_unions, todo, minspantree,
                   union_performed, merges, result, error>>

DSMakeSet ==
    \E v \in Keys \ DOMAIN parent :
        LET st == _make_set(v, [parent |-> parent, rank |-> rank, cc |-> cc])
        IN /\ parent' = st.parent
           /\ rank' = st.rank
           /\ cc' = st.cc
           /\ Operation("_make_set", <<v>>, None)

DSFind ==
    \E v \in DOMAIN parent :
        LET f == _find(v, parent)
        IN /\ parent' = f.parent
           /\ UNCHANGED <<rank, cc>>
           /\ Operation("_find", <<v>>, <<f.root>>)

DSUnion ==
    \E a, b \in DOMAIN parent :
        LET u == _union(a, b, parent, rank)
        IN /\ parent' = u.parent
           /\ rank' = u.rank
           /\ UNCHANGED cc
           /\ Operation("_union", <<a, b>>, None)

DSUnionReturning ==
    \E a, b \in DOMAIN parent :
        LET u == _union_returning_choosen(a, b, parent, rank)
        IN /\ parent' = u.parent
           /\ rank' = u.rank
           /\ UNCHANGED cc
           /\ Operation("_union_returning_choosen", <<a, b>>, u.ret)

NextDS == DSMakeSet \/ DSFind \/ DSUnion \/ DSUnionReturning

SpecDS == InitDS /\ [][NextDS]_vars

\* ------------------------------------------------------- parent forests
\* what the claims say of the parent dictionary, read without writing to it
RECURSIVE RootOf(_, _)
RootOf(par, v) == IF par[v] = v THEN v ELSE RootOf(par, par[v])

\* the vertices from v up to its root, both among them
RECURSIVE Chain(_, _)
Chain(par, v) == IF par[v] = v THEN {v} ELSE {v} \cup Chain(par, par[v])

Children(par, v) == {u \in DOMAIN par : u # v /\ par[u] = v}

Max(S) == CHOOSE x \in S : \A y \in S : y <= x

\* the height of the subtree of the parent forest rooted at v
RECURSIVE Height(_, _)
Height(par, v) ==
    IF Children(par, v) = {} THEN 0
    ELSE 1 + Max({Height(par, u) : u \in Children(par, v)})

\* C12: right after make_set(v), find(v) is v; and when the union of a and b
\* returns a (surviving, absorbed) pair, find(a) and find(b) are both the
\* surviving root, and the absorbed root, a root before, is one no longer.
C12_MakeSetFindUnion ==
    /\ prev.op = "_make_set" =>
          _find(prev.args[1], parent).root = prev.args[1]
    /\ prev.op = "_union_returning_choosen" /\ prev.ret # None =>
          LET fa == _find(prev.args[1], parent)
              fb == _find(prev.args[2], fa.parent)
          IN /\ fa.root = fb.root
             /\ fa.root = prev.ret[1]
             /\ prev.parent[prev.ret[2]] = prev.ret[2]
             /\ parent[prev.ret[2]] # prev.ret[2]
             /\ parent[prev.ret[1]] = prev.ret[1]

\* a union of two vertices neither of which is a root, the root of the first
\* absorbed
C12_Witness ==
    /\ prev.op = "_union_returning_choosen"
    /\ prev.ret # None
    /\ prev.args[1] \notin {prev.ret[1], prev.ret[2]}
    /\ prev.args[2] \notin {prev.ret[1], prev.ret[2]}
    /\ RootOf(prev.parent, prev.args[1]) = prev.ret[2]

\* C13: a union that merges two distinct roots attaches the root of strictly
\* lower rank under the other and changes no rank; on equal ranks it attaches
\* the root of a under the root of b and adds one to the rank of the root of
\* b alone.  _union and _union_returning_choosen do the same to the
\* dictionaries, whatever the two vertices.
C13_UnionByRank ==
    /\ prev.op \in {"_union", "_union_returning_choosen"} =>
          LET root1 == RootOf(prev.parent, prev.args[1])
              root2 == RootOf(prev.parent, prev.args[2])
          IN root1 # root2 =>
                IF prev.rank[root1] > prev.rank[root2]
                THEN /\ parent[root2] = root1
                     /\ parent[root1] = root1
                     /\ rank = prev.rank
                ELSE /\ parent[root1] = root2
                     /\ parent[root2] = root2
                     /\ rank = IF prev.rank[root1] = prev.rank[root2]
                               THEN [prev.rank EXCEPT
                                        ![root2] = prev.rank[root2] + 1]
                               ELSE prev.rank
    /\ \A a, b \in DOMAIN parent :
          LET u == _union(a, b, parent, rank)
              c == _union_returning_choosen(a, b, parent, rank)
          IN u.parent = c.parent /\ u.rank = c.rank

\* the root of a, of higher rank than the root of b, has absorbed it
C13_Witness ==
    /\ prev.op = "_union"
    /\ RootOf(prev.parent, prev.args[1]) # RootOf(prev.parent, prev.args[2])
    /\ prev.rank[RootOf(prev.parent, prev.args[1])]
         > prev.rank[RootOf(prev.parent, prev.args[2])]
    /\ parent[RootOf(prev.parent, prev.args[2])]
         = RootOf(prev.parent, prev.args[1])

\* C16: find(v) returns the root of v; afterwards every vertex of the chain
\* from v to the root has the root as its parent; every other parent, the
\* ranks, the member sets, the roots and the root of every vertex are as they
\* were.
C16_FindFrame ==
    prev.op = "_find" =>
        LET v == prev.args[1]
            root == RootOf(prev.parent, v)
            chain == Chain(prev.parent, v)
        IN /\ prev.ret = <<root>>
           /\ DOMAIN parent = DOMAIN prev.parent
           /\ \A u \in chain : parent[u] = root
           /\ \A u \in DOMAIN parent \ chain : parent[u] = prev.parent[u]
           /\ rank = prev.rank
           /\ cc = prev.cc
           /\ Roots(parent) = Roots(prev.parent)
           /\ \A u \in DOMAIN parent :
                 RootOf(parent, u) = RootOf(prev.parent, u)

\* a find that had a parent to rewrite
C16_Witness ==
    /\ prev.op = "_find"
    /\ parent # prev.parent
    /\ Cardinality(Chain(prev.parent, prev.args[1])) >= 3

\* C17: every rank is a natural number no less than the height of the subtree
\* of the parent forest rooted at its vertex.
C17_RankBoundsHeight ==
    /\ DOMAIN rank = DOMAIN parent
    /\ \A v \in DOMAIN parent :
          rank[v] \in Nat /\ rank[v] >= Height(parent, v)

\* a root of rank 2 whose tree, of height 2 before, path compression has made
\* lower than its rank
C17_Witness ==
    /\ prev.op = "_find"
    /\ \E v \in DOMAIN parent :
          /\ rank[v] = 2
          /\ Height(prev.parent, v) = 2
          /\ Height(parent, v) = 1

\* C14: in a clustering call, before and after every iteration of the loop
\* and in what is returned, the keys of cc are exactly the roots, and the
\* value under a root is exactly the set of vertices whose find is that root.
C14_MembersAreComponents ==
    op = "clustering" /\ pc \in {"loop", "done"} =>
        /\ DOMAIN cc = Roots(parent)
        /\ \A r \in DOMAIN cc :
              cc[r] = {v \in DOMAIN parent : _find(v, parent).root = r}
        /\ pc = "done" => result[2] = cc

\* between two iterations, after a merge, with several components left
C14_Witness ==
    /\ op = "clustering"
    /\ pc = "loop"
    /\ todo # <<>>
    /\ merges >= 1
    /\ Cardinality(DOMAIN cc) >= 2
    /\ \E r \in DOMAIN cc : Cardinality(cc[r]) >= 2

\* the edge the loop of clustering is about to process joins two components
EdgeToMerge ==
    /\ op = "clustering"
    /\ pc = "loop"
    /\ todo # <<>>
    /\ ~BudgetExceeded(union_performed, nb_unions)
    /\ LET f1 == _find(Head(todo)[2], parent)
           f2 == _find(Head(todo)[3], f1.parent)
       IN f1.root # f2.root

\* C15: when the roots found for an edge differ, the union returns a pair
\* and not None, both roots of the pair are keys of cc, and after the merge
\* both endpoints have the same find; no assertion of the loop fails, and
\* the accepted edges and the counter count the merges made.
C15_AssertionsHold ==
    /\ EdgeToMerge =>
          LET edge == Head(todo)
              f1 == _find(edge[2], parent)
              f2 == _find(edge[3], f1.parent)
              u == _union_returning_choosen(edge[2], edge[3], f2.parent, rank)
              g1 == _find(edge[2], u.parent)
              g2 == _find(edge[3], g1.parent)
          IN /\ u.ret # None
             /\ u.ret[1] \in DOMAIN cc
             /\ u.ret[2] \in DOMAIN cc
             /\ g1.root = g2.root
    /\ op = "clustering" => error # "AssertionError"
    /\ op = "clustering" /\ pc \in {"loop", "done"} =>
          /\ Cardinality(minspantree) = merges
          /\ union_performed = merges + 1

\* an edge to merge two components that merges have made, its second endpoint
\* not the root of its component
C15_Witness ==
    /\ EdgeToMerge
    /\ merges >= 2
    /\ parent[Head(todo)[3]] # Head(todo)[3]

\* ------------------------------------------------------- a clustering call
\* clustering called on well-formed edges.  The call is sequential code that
\* nothing suspends: a step that can be taken is taken.
InitClustering == Init /\ op = "clustering" /\ WellFormed(edges)

NextClustering == Validate \/ Setup \/ ClusterIter \/ Return

SpecClustering ==
    InitClustering /\ [][NextClustering]_vars /\ WF_vars(NextClustering)

\* INIT (the check of the edges and the setup), SCANNING (the loop), DONE
PhaseNumber ==
    CASE pc \in {"called", "init"} -> 1
      [] pc = "loop" -> 2
      [] pc = "done" -> 3
      [] OTHER -> 0

\* the vertex n parents above v
RECURSIVE Ancestor(_, _, _)
Ancestor(par, v, n) == IF n = 0 THEN v ELSE Ancestor(par, par[v], n - 1)

\* every parent chain ends at a self-parented root: as many parents above any
\* vertex as there are vertices is a root
ChainsEnd ==
    \A v \in DOMAIN parent :
        LET top == Ancestor(parent, v, Cardinality(DOMAIN parent))
        IN parent[top] = top

\* C18: a clustering call on well-formed edges goes from INIT to SCANNING to
\* DONE, one phase after the other and never back, and always gets to DONE;
\* on the way every parent chain ends at a self-parented root.
C18_PhasesAndTermination ==
    /\ [][PhaseNumber' \in {PhaseNumber, PhaseNumber + 1}]_vars
    /\ [](PhaseNumber >= 1)
    /\ <>(pc = "done")
    /\ []ChainsEnd

\* DONE reached by the break, edges left over, after a find that had a chain
\* to follow
C18_Witness ==
    /\ ClusteringDone
    /\ todo # <<>>
    /\ merges >= 2
    /\ \E v \in DOMAIN parent : parent[v] # v /\ parent[parent[v]] = parent[v]

\* ------------------------------------------------------- degenerate counts
\* clustering called with a count of 0 or less, then again on the same graph
\* with a count of 1
ThenOne == op = "clustering" /\ nb_clusters <= 0 /\ NextCall("clustering", 1)

NextOne == Next \/ ThenOne

SpecOne == Init /\ [][NextOne]_vars

DegenerateCount ==
    nb_clusters > Cardinality(_vertices(edges)) \/ nb_clusters <= 0

\* C19: on well-formed edges clustering raises nothing when the count is
\* greater than the number of vertices or is 0 or less.  With a count greater
\* than the number of vertices it returns no edge and every vertex as its own
\* component; with a count of 0 or less it returns what it returns for 1.
C19_DegenerateCounts ==
    /\ op = "clustering" /\ WellFormed(edges) /\ DegenerateCount =>
          pc # "raised" /\ error = "none"
    /\ ClusteringDone /\ nb_clusters > Cardinality(_vertices(edges)) =>
          /\ result[1] = {}
          /\ result[2] = [v \in _vertices(edges) |-> {v}]
    /\ ClusteringDone /\ nb_clusters = 1
          /\ prev.op = "clustering" /\ prev.pc = "done"
          /\ prev.nb_clusters <= 0 =>
          result = prev.result

\* the call with 1 stopped by the break with edges left over, after the call
\* with 0 or less that went through them all and returned the same
C19_Witness ==
    /\ ClusteringDone
    /\ nb_clusters = 1
    /\ prev.op = "clustering" /\ prev.pc = "done" /\ prev.nb_clusters <= 0
    /\ todo # <<>>
    /\ result[1] # {}
    /\ result = prev.result

\* ------------------------------------------------------- clustering in the tree
\* the n least of the edges of S, in the order of sorted()
FirstEdges(S, n) ==
    {e \in S : Cardinality({f \in S : TupleLess(f, e)}) < n}

\* C20: on well-formed edges, the edges clustering(edges, k) accepts are edges
\* minimum_spanning_tree(edges) accepts: the first min(max(V - k, 0), |tree|)
\* of them in sorted order, V the number of vertices; for k <= 1 they are all
\* of them, connected graph or not.
C20_PrefixOfTree ==
    MstDone /\ prev.op = "clustering" /\ prev.pc = "done" =>
        LET accepted == prev.result[1]
            V == Cardinality(_vertices(edges))
            n == Min(Max({V - prev.nb_clusters, 0}), Cardinality(result))
        IN /\ accepted \subseteq result
           /\ accepted = FirstEdges(result, n)
           /\ prev.nb_clusters <= 1 => accepted = result

\* clustering stopped with some edges of the tree accepted and some not yet
C20_Witness ==
    /\ MstDone
    /\ prev.op = "clustering" /\ prev.pc = "done"
    /\ prev.result[1] # {}
    /\ prev.result[1] # result
    /\ prev.result[1] \subseteq result

====
